---- MODULE Spec2Model ----
(***************************************************************************)
(* Model of the two example programs of the repository:                    *)
(*   example/stock_agent_drop_in.py     class RedditSentimentClient        *)
(*   example/stock_sentiment_scraper.py class StockSentimentScraper        *)
(* The external scraper (YARS, "the collaborator") is the environment: each *)
(* of its calls either raises or returns a list of references to post      *)
(* records.  Post records are mutable dictionaries, so they live in a heap *)
(* and the lists hold references; two responses may hold the same record.  *)
(***************************************************************************)
EXTENDS Integers, Sequences, FiniteSets, TLC

VARIABLES
    prog,           \* which program runs: "client" or "scraper"
    config,         \* RedditSentimentClient.config
    enabled,        \* RedditSentimentClient.enabled
    subreddits,     \* RedditSentimentClient.subreddits
    rate_limit,     \* RedditSentimentClient.rate_limit
    min_delay,      \* RedditSentimentClient.min_delay, a reduced fraction
    verbose,        \* StockSentimentScraper.verbose
    heap,           \* the collaborator's post records, by reference
    pc,             \* "idle": between two calls; "returned": a call has returned
    op,             \* the public method last called, with its arguments
    ret,            \* what it returned
    exc,            \* TRUE iff an exception escaped it
    events,         \* what it did, in order: collaborator calls, sleeps, prints
    locals          \* the caller's own variables: the aggregates it holds

vars == <<prog, config, enabled, subreddits, rate_limit, min_delay, verbose,
          heap, pc, op, ret, exc, events, locals>>

(***************************************************************************)
(* Bounds and input sets                                                    *)
(***************************************************************************)
NumPosts == 2       \* post records the collaborator holds
MaxSubs == 2        \* longest list of subreddits passed to a method

SubNames == {"wallstreetbets", "stocks"}
Tickers == {"TSLA", "NVDA"}
RateLimits == {-1, 0, 7, 30, 120}

(***************************************************************************)
(* Python helpers                                                           *)
(***************************************************************************)
EmptyDict == <<>>

\* dict.get(k, default)
Get(d, k, default) == IF k \in DOMAIN d THEN d[k] ELSE default

\* d[k] = v
Put(d, k, v) == [x \in DOMAIN d \cup {k} |-> IF x = k THEN v ELSE d[x]]

Range(s) == {s[i] : i \in 1..Len(s)}

\* the sequences over a set, of length at most n
SeqsUpTo(S, n) == UNION {[1..k -> S] : k \in 0..n}

\* the members of a set of integers in increasing order
RECURSIVE Ascending(_)
Ascending(S) ==
    IF S = {} THEN <<>>
    ELSE LET m == CHOOSE x \in S : \A y \in S : x <= y
         IN <<m>> \o Ascending(S \ {m})

\* F(x), with x evaluated once before F is applied to its value
Strict(F(_), x) == CHOOSE v \in {F(y) : y \in {x}} : TRUE

RECURSIVE Gcd(_, _)
Gcd(a, b) == IF b = 0 THEN a ELSE Gcd(b, a % b)

\* the number n/d (n >= 0, d > 0), in lowest terms
Frac(n, d) == LET g == Gcd(n, d) IN [num |-> n \div g, den |-> d \div g]

\* x * (n/d)
Times(x, n, d) == Frac(x.num * n, x.den * d)

(***************************************************************************)
(* The collaborator (external scraper) and its post records                 *)
(***************************************************************************)
PostIds == 1..NumPosts

\* The records the collaborator hands out.  Odd records carry only their own
\* fields; even ones already carry fields named like the tags.
PoolRecord(i) ==
    IF i % 2 = 1
    THEN [title |-> i, score |-> 10 * i, num_comments |-> i,
          permalink |-> "/r/stocks/comments/1"]
    ELSE [title |-> i, score |-> 10 * i, num_comments |-> i,
          permalink |-> "/r/stocks/comments/1", subreddit |-> "elsewhere",
          ticker |-> "OLD", ticker_searched |-> "OLD"]

Pool == [i \in PostIds |-> PoolRecord(i)]

\* A collaborator call raises, or returns a list of references to records.
Raise == [raised |-> TRUE, posts |-> <<>>]
Return(s) == [raised |-> FALSE, posts |-> s]
ReturnLists == {Ascending(S) : S \in SUBSET PostIds}
Outcomes == {Raise} \cup {Return(s) : s \in ReturnLists}
\* scrape_post_details returns one record or None: a list of at most one
DetailOutcomes == {Raise, Return(<<>>)} \cup {Return(<<i>>) : i \in PostIds}

Permalinks == {"/r/stocks/comments/1"}
Zero == Frac(0, 1)

\* what a method did, in order
CallEv(fn, sub, query, out, h) ==
    [kind |-> "call", fn |-> fn, sub |-> sub, query |-> query,
     raised |-> out.raised, posts |-> out.posts,
     recs |-> [i \in 1..Len(out.posts) |-> h[out.posts[i]]],
     lo |-> Zero, hi |-> Zero]
SleepEv(lo, hi) ==
    [kind |-> "sleep", fn |-> "time.sleep", sub |-> "", query |-> "",
     raised |-> FALSE, posts |-> <<>>, recs |-> <<>>, lo |-> lo, hi |-> hi]
PrintEv(text) ==
    [kind |-> "print", fn |-> text, sub |-> "", query |-> "",
     raised |-> FALSE, posts |-> <<>>, recs |-> <<>>, lo |-> Zero, hi |-> Zero]

(***************************************************************************)
(* RedditSentimentClient                                                    *)
(***************************************************************************)
DefaultSubreddits == <<"wallstreetbets", "stocks">>
DefaultRateLimit == 30

\* a bug: the flag read from the key "enabled"
InitEnabledWrongKey(cfg) == Get(cfg, "enabled", TRUE)

\* __init__: self.enabled
InitEnabled(cfg) == Get(cfg, "reddit_enabled", TRUE)
\* __init__: self.subreddits
InitSubreddits(cfg) == Get(cfg, "subreddits", DefaultSubreddits)
\* __init__: self.rate_limit
InitRateLimit(cfg) == Get(cfg, "rate_limit_per_minute", DefaultRateLimit)
\* a bug: 60 // rate_limit, the integer quotient
InitMinDelayFloor(r) == IF r > 0 THEN Frac(60 \div r, 1) ELSE Frac(2, 1)

\* __init__: self.min_delay = 60.0 / self.rate_limit if self.rate_limit > 0 else 2.0
InitMinDelay(r) == IF r > 0 THEN Frac(60, r) ELSE Frac(2, 1)

\* _rate_limit_delay: sleep for uniform(min_delay, min_delay * 1.5)
RateLimitDelay(ev) == Append(ev, SleepEv(min_delay, Times(min_delay, 3, 2)))

\* get_subreddit_posts, the try block: the call, the delay, return posts
GetSubredditPostsTry(h, ev, subreddit, out) ==
    LET ev1 == Append(ev, CallEv("fetch_subreddit_posts", subreddit, "", out, h))
    IN IF out.raised
       THEN [ev |-> ev1, exc |-> TRUE, val |-> <<>>]
       ELSE [ev |-> RateLimitDelay(ev1), exc |-> FALSE, val |-> out.posts]

\* get_subreddit_posts: the guard, and the handler of the try block
GetSubredditPosts(h, ev, subreddit, out) ==
    IF ~enabled
    THEN [ev |-> ev, exc |-> FALSE, val |-> <<>>]
    ELSE LET t == GetSubredditPostsTry(h, ev, subreddit, out)
         IN IF t.exc
            THEN [ev |-> Append(t.ev, PrintEv("Error fetching")),
                  exc |-> FALSE, val |-> <<>>]
            ELSE t

\* a bug: post = {'subreddit': sub, 'ticker_searched': ticker}
TagRecordFresh(rec, sub, ticker) == [subreddit |-> sub, ticker_searched |-> ticker]

\* post['subreddit'] = sub; post['ticker_searched'] = ticker
TagRecord(rec, sub, ticker) ==
    [f \in DOMAIN rec \cup {"subreddit", "ticker_searched"} |->
        IF f = "subreddit" THEN sub
        ELSE IF f = "ticker_searched" THEN ticker
        ELSE rec[f]]

\* for post in posts: tag it, in place
TagPosts(h, posts, sub, ticker) ==
    [p \in DOMAIN h |->
        IF p \in Range(posts) THEN TagRecord(h[p], sub, ticker) ELSE h[p]]

\* search_ticker, the try block of one iteration
SearchTry(st, sub, ticker, out) ==
    LET ev1 == Append(st.ev, CallEv("search_subreddit", sub, ticker, out, st.heap))
    IN IF out.raised
       THEN [st EXCEPT !.ev = ev1, !.exc = TRUE]
       ELSE IF out.posts # <<>>
       THEN [heap |-> TagPosts(st.heap, out.posts, sub, ticker),
             ev |-> RateLimitDelay(ev1), exc |-> FALSE,
             val |-> st.val \o out.posts]
       ELSE [st EXCEPT !.ev = RateLimitDelay(ev1)]

\* a bug: no except clause, the exception leaves the loop
SearchIterNoCatch(st, sub, ticker, out) == SearchTry(st, sub, ticker, out)

\* search_ticker, one iteration: except Exception: print; continue
SearchIter(st, sub, ticker, out) ==
    LET t == SearchTry(st, sub, ticker, out)
    IN IF t.exc
       THEN [t EXCEPT !.ev = Append(t.ev, PrintEv("Error searching")),
                      !.exc = FALSE]
       ELSE t

\* search_ticker: for sub in subreddits
RECURSIVE SearchLoop(_, _, _, _, _)
SearchLoop(st, subs, ticker, outs, i) ==
    IF i > Len(subs) \/ st.exc THEN st
    ELSE Strict(LAMBDA s : SearchLoop(s, subs, ticker, outs, i + 1),
                SearchIter(st, subs[i], ticker, outs[subs[i]]))

\* a bug: None stands for the built-in default list, not the configured one
OrConfiguredDefault(arg) ==
    IF arg.none THEN <<"wallstreetbets", "stocks">> ELSE arg.list

\* if subreddits is None: subreddits = self.subreddits
\* (an Optional list is [none, list])
NoneArg == [none |-> TRUE, list |-> <<>>]
ListArg(l) == [none |-> FALSE, list |-> l]
OrConfigured(arg) == IF arg.none THEN subreddits ELSE arg.list

\* search_ticker
SearchTicker(h, ev, ticker, arg, outs) ==
    IF ~enabled
    THEN [heap |-> h, ev |-> ev, exc |-> FALSE, val |-> <<>>]
    ELSE SearchLoop([heap |-> h, ev |-> ev, exc |-> FALSE, val |-> <<>>],
                    OrConfigured(arg), ticker, outs, 1)

\* get_post_details, the try block
GetPostDetailsTry(h, ev, permalink, out) ==
    LET ev1 == Append(ev, CallEv("scrape_post_details", permalink, "", out, h))
    IN IF out.raised
       THEN [ev |-> ev1, exc |-> TRUE, val |-> <<>>]
       ELSE [ev |-> RateLimitDelay(ev1), exc |-> FALSE, val |-> out.posts]

\* get_post_details; None is the empty list
GetPostDetails(h, ev, permalink, out) ==
    IF ~enabled
    THEN [ev |-> ev, exc |-> FALSE, val |-> <<>>]
    ELSE LET t == GetPostDetailsTry(h, ev, permalink, out)
         IN IF t.exc
            THEN [ev |-> Append(t.ev, PrintEv("Error getting post details")),
                  exc |-> FALSE, val |-> <<>>]
            ELSE t

\* a bug: results[sub] = posts without the test of posts
MultiIterKeepEmpty(h, st, sub, out) ==
    LET r == GetSubredditPosts(h, st.ev, sub, out)
    IN IF r.exc
       THEN [st EXCEPT !.ev = r.ev, !.exc = TRUE]
       ELSE [ev |-> r.ev, exc |-> FALSE, val |-> Put(st.val, sub, r.val)]

\* get_multi_subreddit_posts, one iteration: if posts: results[sub] = posts
MultiIter(h, st, sub, out) ==
    LET r == GetSubredditPosts(h, st.ev, sub, out)
    IN IF r.exc
       THEN [st EXCEPT !.ev = r.ev, !.exc = TRUE]
       ELSE [ev |-> r.ev, exc |-> FALSE,
             val |-> IF r.val # <<>> THEN Put(st.val, sub, r.val) ELSE st.val]

RECURSIVE MultiLoop(_, _, _, _, _)
MultiLoop(h, st, subs, outs, i) ==
    IF i > Len(subs) \/ st.exc THEN st
    ELSE MultiLoop(h, MultiIter(h, st, subs[i], outs[subs[i]]), subs, outs, i + 1)

\* get_multi_subreddit_posts
GetMultiSubredditPosts(h, arg, outs) ==
    IF ~enabled
    THEN [ev |-> <<>>, exc |-> FALSE, val |-> EmptyDict]
    ELSE MultiLoop(h, [ev |-> <<>>, exc |-> FALSE, val |-> EmptyDict],
                   OrConfigured(arg), outs, 1)

\* a bug: by_subreddit[sub] = 1, the count never incremented
RECURSIVE CountBySubredditNoIncrement(_, _, _, _)
CountBySubredditNoIncrement(h, posts, i, counts) ==
    IF i > Len(posts) THEN counts
    ELSE LET sub == Get(h[posts[i]], "subreddit", "unknown")
         IN CountBySubredditNoIncrement(h, posts, i + 1, Put(counts, sub, 1))

\* get_sentiment_data: the count by subreddit
RECURSIVE CountBySubreddit(_, _, _, _)
CountBySubreddit(h, posts, i, counts) ==
    IF i > Len(posts) THEN counts
    ELSE LET sub == Get(h[posts[i]], "subreddit", "unknown")
         IN CountBySubreddit(h, posts, i + 1, Put(counts, sub, Get(counts, sub, 0) + 1))

\* get_sentiment_data: results[ticker]
TickerReport(h, ticker, posts) ==
    [ticker |-> ticker, timestamp |-> "now", total_mentions |-> Len(posts),
     posts |-> posts, by_subreddit |-> CountBySubreddit(h, posts, 1, EmptyDict)]

\* a bug: a report only for a ticker that has posts
SentimentIterSkipEmpty(st, ticker, outs) ==
    LET r == SearchTicker(st.heap, st.ev, ticker, NoneArg, outs)
    IN IF r.exc
       THEN [st EXCEPT !.heap = r.heap, !.ev = r.ev, !.exc = TRUE]
       ELSE [heap |-> r.heap, ev |-> r.ev, exc |-> FALSE,
             val |-> IF r.val # <<>>
                     THEN Put(st.val, ticker, TickerReport(r.heap, ticker, r.val))
                     ELSE st.val]

\* get_sentiment_data, one iteration
SentimentIter(st, ticker, outs) ==
    LET r == SearchTicker(st.heap, st.ev, ticker, NoneArg, outs)
    IN IF r.exc
       THEN [st EXCEPT !.heap = r.heap, !.ev = r.ev, !.exc = TRUE]
       ELSE [heap |-> r.heap, ev |-> r.ev, exc |-> FALSE,
             val |-> Put(st.val, ticker, TickerReport(r.heap, ticker, r.val))]

RECURSIVE SentimentLoop(_, _, _, _)
SentimentLoop(st, tickers, outs, i) ==
    IF i > Len(tickers) \/ st.exc THEN st
    ELSE Strict(LAMBDA s : SentimentLoop(s, tickers, outs, i + 1),
                SentimentIter(st, tickers[i], outs[tickers[i]]))

\* get_sentiment_data
GetSentimentData(h, tickers, outs) ==
    IF ~enabled
    THEN [heap |-> h, ev |-> <<>>, exc |-> FALSE, val |-> EmptyDict]
    ELSE SentimentLoop([heap |-> h, ev |-> <<>>, exc |-> FALSE, val |-> EmptyDict],
                       tickers, outs, 1)

(***************************************************************************)
(* StockSentimentScraper                                                    *)
(***************************************************************************)
stock_subreddits == <<"wallstreetbets", "stocks", "investing", "stockmarket", "options">>
StockSubNames == Range(stock_subreddits)

\* log: print if verbose
Log(ev, text) == IF verbose THEN Append(ev, PrintEv(text)) ELSE ev

\* {**post, "subreddit": subreddit, "ticker": ticker}: a tagged copy
TaggedCopy(rec, subreddit, ticker) ==
    [f \in DOMAIN rec \cup {"subreddit", "ticker"} |->
        IF f = "subreddit" THEN subreddit
        ELSE IF f = "ticker" THEN ticker
        ELSE rec[f]]

\* scrape_ticker_sentiment: the update of results when posts is not empty
AddPosts(results, subreddit, ticker, recs) ==
    [results EXCEPT
        !.by_subreddit = Put(@, subreddit, Len(recs)),
        !.total_posts = @ + Len(recs),
        !.all_posts = @ \o [i \in 1..Len(recs) |-> TaggedCopy(recs[i], subreddit, ticker)]]

\* scrape_ticker_sentiment, the try block of one iteration
ScrapeTry(h, st, subreddit, ticker, out) ==
    LET ev1 == Append(st.ev, CallEv("search_subreddit", subreddit, ticker, out, h))
        recs == [i \in 1..Len(out.posts) |-> h[out.posts[i]]]
    IN IF out.raised
       THEN [st EXCEPT !.ev = ev1, !.exc = TRUE]
       ELSE IF out.posts # <<>>
       THEN [ev |-> Append(Log(ev1, "Found posts"), SleepEv(Frac(2, 1), Frac(4, 1))),
             exc |-> FALSE,
             val |-> AddPosts(st.val, subreddit, ticker, recs)]
       ELSE [st EXCEPT !.ev = Append(Log(ev1, "No posts found"),
                                    SleepEv(Frac(2, 1), Frac(4, 1)))]

\* a bug: no except clause in the loop of scrape_ticker_sentiment
ScrapeIterNoCatch(h, st, subreddit, ticker, out) ==
    ScrapeTry(h, [st EXCEPT !.ev = Log(@, "Searching")], subreddit, ticker, out)

\* scrape_ticker_sentiment, one iteration: except Exception: log; continue
ScrapeIter(h, st, subreddit, ticker, out) ==
    LET t == ScrapeTry(h, [st EXCEPT !.ev = Log(@, "Searching")], subreddit, ticker, out)
    IN IF t.exc
       THEN [t EXCEPT !.ev = Log(@, "Error"), !.exc = FALSE]
       ELSE t

RECURSIVE ScrapeLoop(_, _, _, _, _)
ScrapeLoop(h, st, ticker, outs, i) ==
    IF i > Len(stock_subreddits) \/ st.exc THEN st
    ELSE Strict(LAMBDA s : ScrapeLoop(h, s, ticker, outs, i + 1),
                ScrapeIter(h, st, stock_subreddits[i], ticker,
                           outs[stock_subreddits[i]]))

\* scrape_ticker_sentiment
ScrapeTickerSentiment(h, ticker, outs) ==
    ScrapeLoop(h,
               [ev |-> Log(Log(Log(<<>>, "====="), "Scraping sentiment for"), "====="),
                exc |-> FALSE,
                val |-> [ticker |-> ticker, timestamp |-> "now", total_posts |-> 0,
                         by_subreddit |-> EmptyDict, all_posts |-> <<>>]],
               ticker, outs, 1)

\* scrape_multiple_tickers, one iteration: the report of the ticker is stored
\* under its name, then the delay between tickers
MultipleIter(h, st, ticker, outs) ==
    LET r == ScrapeTickerSentiment(h, ticker, outs)
    IN IF r.exc
       THEN [st EXCEPT !.ev = @ \o r.ev, !.exc = TRUE]
       ELSE [ev |-> Append(st.ev \o r.ev, SleepEv(Frac(3, 1), Frac(6, 1))),
             exc |-> FALSE,
             val |-> [st.val EXCEPT !.tickers = Put(@, ticker, r.val)]]

RECURSIVE MultipleLoop(_, _, _, _, _)
MultipleLoop(h, st, tickers, outs, i) ==
    IF i > Len(tickers) \/ st.exc THEN st
    ELSE Strict(LAMBDA s : MultipleLoop(h, s, tickers, outs, i + 1),
                MultipleIter(h, st, tickers[i], outs[tickers[i]]))

\* scrape_multiple_tickers; outs[ticker][subreddit] is the collaborator's answer
ScrapeMultipleTickers(h, tickers, outs) ==
    MultipleLoop(h,
                 [ev |-> <<>>, exc |-> FALSE,
                  val |-> [timestamp |-> "now", tickers |-> EmptyDict]],
                 tickers, outs, 1)

\* scrape_hot_stocks, the try block: the call, the log, return posts
ScrapeHotStocksTry(h, ev, subreddit, out) ==
    LET ev1 == Append(ev, CallEv("fetch_subreddit_posts", subreddit, "", out, h))
    IN IF out.raised
       THEN [ev |-> ev1, exc |-> TRUE, val |-> <<>>]
       ELSE [ev |-> Log(ev1, "Retrieved hot posts"), exc |-> FALSE, val |-> out.posts]

\* scrape_hot_stocks: except Exception: log; return []
ScrapeHotStocks(h, subreddit, out) ==
    LET t == ScrapeHotStocksTry(h, Log(<<>>, "Fetching hot posts"), subreddit, out)
    IN IF t.exc
       THEN [ev |-> Log(t.ev, "Error"), exc |-> FALSE, val |-> <<>>]
       ELSE t

\* what scrape_post_details returns for a post: title, body and comments
PostDetails(i) ==
    [title |-> i, body |-> "text",
     comments |-> [c \in 1..(i - 1) |-> [author |-> "user", body |-> "text", score |-> c]]]

\* get_post_details_with_comments, the try block; details is None (the empty
\* list) or one post's details
GetPostDetailsWithCommentsTry(h, ev, permalink, out) ==
    LET ev1 == Append(ev, CallEv("scrape_post_details", permalink, "", out, h))
        details == [i \in 1..Len(out.posts) |-> PostDetails(out.posts[i])]
    IN IF out.raised
       THEN [ev |-> ev1, exc |-> TRUE, val |-> <<>>]
       ELSE [ev |-> IF details # <<>> THEN Log(ev1, "Retrieved post with comments")
                    ELSE ev1,
             exc |-> FALSE, val |-> details]

\* get_post_details_with_comments: except Exception: log; return None
GetPostDetailsWithComments(h, permalink, out) ==
    LET t == GetPostDetailsWithCommentsTry(h, Log(<<>>, "Fetching detailed post data"),
                                           permalink, out)
    IN IF t.exc
       THEN [ev |-> Log(t.ev, "Error"), exc |-> FALSE, val |-> <<>>]
       ELSE t

\* save_results writes the file, or open() or json.dump() raises
WriteOutcomes == {"written", "open raises", "dump raises"}
Filenames == {"stock_sentiment_data.json"}

\* open(filename, 'w') and json.dump(data, f, indent=2)
WriteEv(filename, out) ==
    [kind |-> "write", fn |-> filename, sub |-> out, query |-> "",
     raised |-> out # "written", posts |-> <<>>, recs |-> <<>>,
     lo |-> Zero, hi |-> Zero]

\* save_results, the try block; data is the caller's object, val is None
SaveResultsTry(data, filename, out) ==
    LET ev1 == <<WriteEv(filename, out)>>
    IN IF out # "written"
       THEN [ev |-> ev1, exc |-> TRUE, val |-> <<>>, data |-> data]
       ELSE [ev |-> Log(ev1, "Results saved to"), exc |-> FALSE, val |-> <<>>,
             data |-> data]

\* a bug: no except clause
SaveResultsNoCatch(data, filename, out) == SaveResultsTry(data, filename, out)

\* save_results: except Exception: log
SaveResults(data, filename, out) ==
    LET t == SaveResultsTry(data, filename, out)
    IN IF t.exc
       THEN [t EXCEPT !.ev = Log(@, "Error saving results"), !.exc = FALSE]
       ELSE t

(***************************************************************************)
(* The state machine: a constructed object, and calls of its methods       *)
(***************************************************************************)
\* a dict with the key k or without it
Opt(k, vals) == {EmptyDict} \cup {k :> v : v \in vals}

ConfigSubLists == {<<"stocks">>, <<"stocks", "wallstreetbets">>}

\* The configurations: every combination of the flags and the subreddit list,
\* and every rate limit.
FlagConfigs ==
    {a @@ b @@ c :
        a \in Opt("enabled", {FALSE}),
        b \in Opt("reddit_enabled", BOOLEAN),
        c \in Opt("subreddits", ConfigSubLists)}
RateConfigs == {"rate_limit_per_minute" :> r : r \in RateLimits}
Configs == FlagConfigs \cup RateConfigs

\* The lists of subreddits passed as an argument.  The collaborator answers by
\* subreddit (and ticker), so a name listed twice gets the same answer twice.
SubLists == SeqsUpTo(SubNames, MaxSubs)
TickerLists == {<<>>, <<"TSLA">>, <<"TSLA", "NVDA">>}

NoOp == [name |-> "", sub |-> "", ticker |-> "", arg |-> NoneArg, tickers |-> <<>>]

\* the client program: RedditSentimentClient(config)
InitClient ==
    /\ prog = "client"
    /\ config \in Configs
    /\ enabled = InitEnabled(config)
    /\ subreddits = InitSubreddits(config)
    /\ rate_limit = InitRateLimit(config)
    /\ min_delay = InitMinDelay(rate_limit)
    /\ verbose = FALSE

\* the scraper program: StockSentimentScraper(proxy, verbose); it has no client
InitScraper ==
    /\ prog = "scraper"
    /\ verbose \in BOOLEAN
    /\ config = EmptyDict
    /\ enabled = FALSE
    /\ subreddits = <<>>
    /\ rate_limit = 0
    /\ min_delay = Zero

Init ==
    /\ InitClient \/ InitScraper
    /\ heap = Pool
    /\ pc = "idle"
    /\ op = NoOp
    /\ ret = <<>>
    /\ exc = FALSE
    /\ events = <<>>
    /\ locals = <<>>

Fields == <<prog, config, enabled, subreddits, rate_limit, min_delay, verbose>>

Returned(o, h, r) ==
    /\ pc' = "returned"
    /\ op' = o
    /\ heap' = h
    /\ ret' = r.val
    /\ exc' = r.exc
    /\ events' = r.ev
    /\ UNCHANGED <<Fields, locals>>

CallGetSubredditPosts ==
    /\ prog = "client" /\ pc = "idle"
    /\ \E sub \in SubNames, out \in Outcomes :
          Returned([NoOp EXCEPT !.name = "get_subreddit_posts", !.sub = sub],
                   heap, GetSubredditPosts(heap, <<>>, sub, out))

CallSearchTicker ==
    /\ prog = "client" /\ pc = "idle"
    /\ \E ticker \in Tickers,
          arg \in {NoneArg} \cup {ListArg(l) : l \in SubLists},
          outs \in [SubNames -> Outcomes] :
          LET r == SearchTicker(heap, <<>>, ticker, arg, outs)
          IN Returned([NoOp EXCEPT !.name = "search_ticker", !.ticker = ticker,
                                   !.arg = arg],
                      r.heap, r)

CallGetPostDetails ==
    /\ prog = "client" /\ pc = "idle"
    /\ \E permalink \in Permalinks, out \in DetailOutcomes :
          Returned([NoOp EXCEPT !.name = "get_post_details", !.sub = permalink],
                   heap, GetPostDetails(heap, <<>>, permalink, out))

CallGetMultiSubredditPosts ==
    /\ prog = "client" /\ pc = "idle"
    /\ \E arg \in {NoneArg} \cup {ListArg(l) : l \in SubLists},
          outs \in [SubNames -> Outcomes] :
          Returned([NoOp EXCEPT !.name = "get_multi_subreddit_posts", !.arg = arg],
                   heap, GetMultiSubredditPosts(heap, arg, outs))

CallGetSentimentData ==
    /\ prog = "client" /\ pc = "idle"
    /\ \E tickers \in TickerLists, outs \in [Tickers -> [SubNames -> Outcomes]] :
          LET r == GetSentimentData(heap, tickers, outs)
          IN Returned([NoOp EXCEPT !.name = "get_sentiment_data", !.tickers = tickers],
                      r.heap, r)

CallScrapeTickerSentiment ==
    /\ prog = "scraper" /\ pc = "idle"
    /\ \E ticker \in Tickers, outs \in [StockSubNames -> Outcomes] :
          Returned([NoOp EXCEPT !.name = "scrape_ticker_sentiment", !.ticker = ticker],
                   heap, ScrapeTickerSentiment(heap, ticker, outs))

\* the aggregates handed to save_results: reports of scrape_ticker_sentiment
SaveData ==
    {ScrapeTickerSentiment(Pool, "TSLA", [s \in StockSubNames |-> o]).val :
        o \in Outcomes}

\* save_results(data, filename); the caller still holds data afterwards
CallSaveResults ==
    /\ prog = "scraper" /\ pc = "idle"
    /\ \E data \in SaveData, filename \in Filenames, out \in WriteOutcomes :
          LET r == SaveResults(data, filename, out)
          IN /\ pc' = "returned"
             /\ op' = [name |-> "save_results", data |-> data, filename |-> filename]
             /\ ret' = r.val
             /\ exc' = r.exc
             /\ events' = r.ev
             /\ locals' = [data |-> r.data]
             /\ UNCHANGED <<Fields, heap>>

\* The caller goes on to its next call; the collaborator's next responses are
\* made of new records.
NextCall ==
    /\ pc = "returned"
    /\ ~exc
    /\ pc' = "idle"
    /\ op' = NoOp
    /\ heap' = Pool
    /\ ret' = <<>>
    /\ exc' = FALSE
    /\ events' = <<>>
    /\ locals' = <<>>
    /\ UNCHANGED Fields

Next ==
    \/ CallGetSubredditPosts
    \/ CallSearchTicker
    \/ CallGetPostDetails
    \/ CallGetMultiSubredditPosts
    \/ CallGetSentimentData
    \/ CallScrapeTickerSentiment
    \/ CallSaveResults
    \/ NextCall

Spec == Init /\ [][Next]_vars

(***************************************************************************)
(* The two scripts: main() of stock_sentiment_scraper and the test script   *)
(* of stock_agent_drop_in, from the constructed object to the last print.   *)
(* pc is the script's position, events the whole run's record, locals the   *)
(* script's variables, op the last step and where its events begin.         *)
(***************************************************************************)
watchlist == <<"TSLA", "NVDA", "AAPL">>
test_tickers == <<"TSLA", "NVDA">>

\* test_config of the test script (reddit_proxy comes from the environment)
test_config ==
    [enabled |-> TRUE, reddit_enabled |-> TRUE,
     subreddits |-> <<"wallstreetbets", "stocks">>, rate_limit_per_minute |-> 30]

\* In a run a collaborator call raises, finds nothing, or returns every post.
RunOutcomes == {Raise, Return(<<>>), Return(Ascending(PostIds))}

\* d[k] for every k of keys succeeds; a missing key is a KeyError
HasKeys(d, keys) == keys \subseteq DOMAIN d

\* the first n elements: s[:n]
Prefix(s, n) == SubSeq(s, 1, IF Len(s) < n THEN Len(s) ELSE n)

\* the script's own prints before and after a call; reading a missing key
\* raises in the script
Script(before, r, after, keysOk) ==
    IF r.exc THEN r
    ELSE IF ~keysOk THEN [r EXCEPT !.ev = <<PrintEv(before)>> \o @, !.exc = TRUE]
    ELSE [r EXCEPT !.ev = <<PrintEv(before)>> \o @ \o <<PrintEv(after)>>]

\* main(): scraper = StockSentimentScraper(proxy=proxy)
InitMain ==
    /\ prog = "scraper"
    /\ verbose = TRUE
    /\ config = EmptyDict
    /\ enabled = FALSE
    /\ subreddits = <<>>
    /\ rate_limit = 0
    /\ min_delay = Zero

\* the test script: reddit = RedditSentimentClient(test_config)
InitTest ==
    /\ prog = "client"
    /\ config = test_config
    /\ enabled = InitEnabled(config)
    /\ subreddits = InitSubreddits(config)
    /\ rate_limit = InitRateLimit(config)
    /\ min_delay = InitMinDelay(rate_limit)
    /\ verbose = FALSE

InitRun ==
    /\ InitMain \/ InitTest
    /\ heap = Pool
    /\ pc = "start"
    /\ op = NoOp
    /\ ret = <<>>
    /\ exc = FALSE
    /\ events = <<>>
    /\ locals = <<>>

\* One step of a script.  An exception that reaches main() ends it with a
\* traceback; one that reaches the test script's try block is printed by its
\* except clause, and the script ends without "All tests passed".
RunStep(name, next, h, r, loc) ==
    /\ pc' = IF ~r.exc THEN next
             ELSE IF prog = "scraper" THEN "crashed" ELSE "failed"
    /\ op' = [name |-> name, from |-> Len(events) + 1]
    /\ heap' = h
    /\ ret' = r.val
    /\ exc' = r.exc
    /\ events' = IF r.exc /\ prog = "client"
                 THEN Append(events \o r.ev, PrintEv("Error: make sure"))
                 ELSE events \o r.ev
    /\ locals' = loc
    /\ UNCHANGED Fields

\* main: [1] scrape_multiple_tickers(watchlist) and the results summary.  The
\* collaborator answers a subreddit in the same way for each ticker.
MainScrape ==
    /\ prog = "scraper" /\ pc = "start"
    /\ \E outs \in [StockSubNames -> RunOutcomes] :
       \E r \in {ScrapeMultipleTickers(heap, watchlist,
                                       [t \in Range(watchlist) |-> outs])} :
          LET keysOk == \A t \in DOMAIN r.val.tickers :
                           HasKeys(r.val.tickers[t], {"total_posts", "by_subreddit"})
          IN RunStep("scrape_multiple_tickers", "save", heap,
                     Script("[1] Scraping specific tickers", r, "RESULTS SUMMARY", keysOk),
                     [ticker_results |-> r.val])

\* main: scraper.save_results(ticker_results, "stock_sentiment_data.json")
MainSave ==
    /\ prog = "scraper" /\ pc = "save"
    /\ \E out \in WriteOutcomes :
       \E r \in {SaveResults(locals.ticker_results, "stock_sentiment_data.json", out)} :
          RunStep("save_results", "hot", heap,
                     [ev |-> r.ev, exc |-> r.exc, val |-> r.val],
                     [locals EXCEPT !.ticker_results = r.data])

\* main: [2] scrape_hot_stocks("wallstreetbets") and the top 5 posts
MainHot ==
    /\ prog = "scraper" /\ pc = "hot"
    /\ \E out \in RunOutcomes :
       \E r \in {ScrapeHotStocks(heap, "wallstreetbets", out)} :
          LET top == Prefix(r.val, 5)
              keysOk == \A i \in 1..Len(top) :
                           HasKeys(heap[top[i]],
                                   {"title", "score", "num_comments", "permalink"})
          IN RunStep("scrape_hot_stocks",
                     IF r.val # <<>> THEN "details" ELSE "end", heap,
                     Script("[2] Getting hot posts", r, "Top 5 hot posts", keysOk),
                     Put(locals, "hot_posts", r.val))

\* main: [3] if hot_posts: get_post_details_with_comments of the first post,
\* and its first 3 comments
MainDetails ==
    /\ prog = "scraper" /\ pc = "details"
    /\ \E out \in DetailOutcomes :
          LET first_post == heap[locals.hot_posts[1]]
              r == IF HasKeys(first_post, {"permalink"})
                   THEN GetPostDetailsWithComments(heap, first_post.permalink, out)
                   ELSE [ev |-> <<>>, exc |-> TRUE, val |-> <<>>]
              keysOk == \A i \in 1..Len(r.val) :
                           /\ HasKeys(r.val[i], {"title", "comments"})
                           /\ \A c \in 1..Len(Prefix(r.val[i].comments, 3)) :
                                 HasKeys(r.val[i].comments[c], {"body", "author", "score"})
          IN RunStep("get_post_details_with_comments", "end", heap,
                     Script("[3] Getting detailed post", r, "First 3 comments", keysOk),
                     Put(locals, "post_details", r.val))

\* test script: [Test 1] get_subreddit_posts('wallstreetbets') and the top post
Test1 ==
    /\ prog = "client" /\ pc = "start"
    /\ \E out \in RunOutcomes :
       \E r \in {GetSubredditPosts(heap, <<>>, "wallstreetbets", out)} :
          LET keysOk == r.val # <<>> =>
                           HasKeys(heap[r.val[1]], {"title", "score", "num_comments"})
          IN RunStep("get_subreddit_posts", "test2", heap,
                     Script("[Test 1] Getting hot posts", r, "Retrieved posts", keysOk),
                     [posts |-> r.val])

\* test script: [Test 2] search_ticker('TSLA')
Test2 ==
    /\ prog = "client" /\ pc = "test2"
    /\ \E outs \in [SubNames -> RunOutcomes] :
       \E r \in {SearchTicker(heap, <<>>, "TSLA", NoneArg, outs)} :
          RunStep("search_ticker", "test3", r.heap,
                     Script("[Test 2] Searching for TSLA",
                            [ev |-> r.ev, exc |-> r.exc, val |-> r.val],
                            "Found posts mentioning TSLA", TRUE),
                     Put(locals, "tsla_posts", r.val))

\* test script: [Test 3] get_sentiment_data(['TSLA', 'NVDA']) and its summary
Test3 ==
    /\ prog = "client" /\ pc = "test3"
    /\ \E outs \in [Range(test_tickers) -> [SubNames -> RunOutcomes]] :
       \E r \in {GetSentimentData(heap, test_tickers, outs)} :
          LET keysOk == \A t \in DOMAIN r.val :
                           HasKeys(r.val[t], {"total_mentions", "by_subreddit"})
          IN RunStep("get_sentiment_data", "end", r.heap,
                     Script("[Test 3] Getting sentiment data",
                            [ev |-> r.ev, exc |-> r.exc, val |-> r.val],
                            "Mentions, by subreddit", keysOk),
                     Put(locals, "sentiment", r.val))

\* the last prints of either script: its normal end
RunEnd ==
    /\ pc = "end"
    /\ RunStep("end", "done", heap,
               [ev |-> <<PrintEv(IF prog = "scraper" THEN "Done!" ELSE "All tests passed!")>>,
                exc |-> FALSE, val |-> <<>>],
               locals)

NextRun ==
    \/ MainScrape
    \/ MainSave
    \/ MainHot
    \/ MainDetails
    \/ Test1
    \/ Test2
    \/ Test3
    \/ RunEnd

\* A script is one thread: each step is a bounded loop of sleeps and of
\* collaborator calls, which return or raise (YARS is given timeout=15), so
\* the step that is enabled is eventually taken.
SpecRun == InitRun /\ [][NextRun]_vars /\ WF_vars(NextRun)

(***************************************************************************)
(* Properties                                                               *)
(***************************************************************************)
IsCall(e) == e.kind = "call"
IsSleep(e) == e.kind = "sleep"
Calls == SelectSeq(events, IsCall)
Sleeps == SelectSeq(events, IsSleep)

\* the list a call with an optional list argument was asked to go through
Requested == IF op.arg.none THEN subreddits ELSE op.arg.list

\* the posts the collaborator returned, over all its calls, in order
RECURSIVE FlatPosts(_, _)
FlatPosts(calls, i) ==
    IF i > Len(calls) THEN <<>> ELSE calls[i].posts \o FlatPosts(calls, i + 1)

\* for each of them, the records as they were when returned
RECURSIVE FlatRecs(_, _)
FlatRecs(calls, i) ==
    IF i > Len(calls) THEN <<>> ELSE calls[i].recs \o FlatRecs(calls, i + 1)

\* and the subreddit whose call returned it
RECURSIVE FlatSources(_, _)
FlatSources(calls, i) ==
    IF i > Len(calls) THEN <<>>
    ELSE [k \in 1..Len(calls[i].posts) |-> calls[i].sub] \o FlatSources(calls, i + 1)

\* the sum of the values of a dict of counts
RECURSIVE SumValues(_, _)
SumValues(d, keys) ==
    IF keys = {} THEN 0
    ELSE LET k == CHOOSE x \in keys : TRUE IN d[k] + SumValues(d, keys \ {k})

\* C1: when the collaborator raises for one subreddit of the list and returns
\* posts for another, search_ticker and get_multi_subreddit_posts raise
\* nothing, every subreddit of the list is queried (those after the failing
\* one included), and the result holds all the posts of the subreddits that
\* returned some and nothing for those that raised.
C1_PartialResults ==
    (/\ pc = "returned"
     /\ op.name \in {"search_ticker", "get_multi_subreddit_posts"}
     /\ \E i \in 1..Len(Calls) : Calls[i].raised
     /\ \E j \in 1..Len(Calls) : Calls[j].posts # <<>>)
    => /\ ~exc
       /\ [i \in 1..Len(Calls) |-> Calls[i].sub] = Requested
       /\ op.name = "search_ticker" => ret = FlatPosts(Calls, 1)
       /\ op.name = "get_multi_subreddit_posts" =>
            \A i \in 1..Len(Calls) :
               /\ Calls[i].raised => Calls[i].sub \notin DOMAIN ret
               /\ Calls[i].posts # <<>> =>
                     /\ Calls[i].sub \in DOMAIN ret
                     /\ ret[Calls[i].sub] = Calls[i].posts

\* a search where the first subreddit raised and a later one returned posts
C1_Witness ==
    /\ pc = "returned"
    /\ op.name = "search_ticker"
    /\ Len(Calls) = 2
    /\ Calls[1].raised
    /\ Calls[2].posts # <<>>
    /\ ret = Calls[2].posts

\* C2: every post search_ticker returns has ticker_searched equal to the
\* requested ticker and subreddit equal to the subreddit whose call returned
\* it, also when two responses hold the same record.
C2_TagsMatchSource ==
    (pc = "returned" /\ op.name = "search_ticker")
    => \A i \in 1..Len(ret) :
          /\ heap[ret[i]].ticker_searched = op.ticker
          /\ heap[ret[i]].subreddit = FlatSources(Calls, 1)[i]

\* C3: in every ticker report the total equals the number of posts of the
\* report, and the counts by subreddit add up to the total.
C3_ReportTotals ==
    /\ (pc = "returned" /\ op.name = "get_sentiment_data")
       => \A t \in DOMAIN ret :
             /\ ret[t].total_mentions = Len(ret[t].posts)
             /\ SumValues(ret[t].by_subreddit, DOMAIN ret[t].by_subreddit)
                   = ret[t].total_mentions
    /\ (pc = "returned" /\ op.name = "scrape_ticker_sentiment")
       => /\ ret.total_posts = Len(ret.all_posts)
          /\ SumValues(ret.by_subreddit, DOMAIN ret.by_subreddit) = ret.total_posts

\* a report over two subreddits with three posts, after a search that failed
C3_Witness ==
    /\ pc = "returned"
    /\ op.name = "get_sentiment_data"
    /\ \E i \in 1..Len(Calls) : Calls[i].raised
    /\ \E t \in DOMAIN ret :
          /\ ret[t].total_mentions = 3
          /\ Cardinality(DOMAIN ret[t].by_subreddit) = 2

\* a method that returned nothing and called nothing
NothingDone == DOMAIN ret = {} /\ Calls = <<>>

\* C4 as stated: a client constructed from a configuration with enabled = false
\* returns an empty result from every public fetch method and calls nothing.
C4_EnabledFalseNoCalls ==
    (/\ prog = "client" /\ pc = "returned"
     /\ "enabled" \in DOMAIN config /\ config["enabled"] = FALSE)
    => NothingDone

\* C4, amended: a client constructed from a configuration with
\* reddit_enabled = false returns an empty result from every public fetch
\* method and calls nothing.
C4_RedditEnabledFalseNoCalls ==
    (/\ prog = "client" /\ pc = "returned"
     /\ "reddit_enabled" \in DOMAIN config /\ config["reddit_enabled"] = FALSE)
    => NothingDone

\* get_sentiment_data of two tickers on a client with reddit_enabled = false
C4_Witness ==
    /\ prog = "client" /\ pc = "returned"
    /\ "reddit_enabled" \in DOMAIN config /\ config["reddit_enabled"] = FALSE
    /\ op.name = "get_sentiment_data"
    /\ Len(op.tickers) = 2
    /\ NothingDone

\* C5: in every run of get_subreddit_posts, search_ticker, get_post_details
\* and get_multi_subreddit_posts there is one delay for each collaborator
\* call, raised or not, and a delay between any two consecutive calls.
C5_DelayPerCall ==
    (/\ pc = "returned"
     /\ op.name \in {"get_subreddit_posts", "search_ticker", "get_post_details",
                     "get_multi_subreddit_posts"})
    => /\ Len(Sleeps) = Len(Calls)
       /\ \A i, j \in 1..Len(events) :
             (i < j /\ IsCall(events[i]) /\ IsCall(events[j]))
             => \E k \in (i + 1)..(j - 1) : IsSleep(events[k])

\* C6: the mapping get_multi_subreddit_posts returns has only requested
\* subreddits as keys, each with a non-empty list of posts; a subreddit whose
\* fetch failed or returned no post has no key.
C6_NoEmptyKeys ==
    (pc = "returned" /\ op.name = "get_multi_subreddit_posts")
    => /\ \A k \in DOMAIN ret : ret[k] # <<>> /\ k \in Range(Requested)
       /\ \A i \in 1..Len(Calls) :
             (Calls[i].raised \/ Calls[i].posts = <<>>)
             => Calls[i].sub \notin DOMAIN ret

\* one subreddit returned no post, the other some
C6_Witness ==
    /\ pc = "returned"
    /\ op.name = "get_multi_subreddit_posts"
    /\ Len(Calls) = 2
    /\ ~Calls[1].raised /\ Calls[1].posts = <<>>
    /\ Calls[2].posts # <<>>
    /\ DOMAIN ret = {Calls[2].sub}

\* C7: search_ticker with subreddits = None, on an enabled client, calls
\* search_subreddit once for each entry of the configured list, in the order
\* of the list, with the ticker as query, whatever the calls return or raise;
\* it returns the posts of the calls, concatenated in that order.
C7_ConfiguredOrder ==
    (/\ pc = "returned" /\ op.name = "search_ticker" /\ op.arg.none
     /\ Get(config, "reddit_enabled", TRUE))
    => LET configured == Get(config, "subreddits", <<"wallstreetbets", "stocks">>)
       IN /\ Len(Calls) = Len(configured)
          /\ \A i \in 1..Len(Calls) :
                /\ Calls[i].fn = "search_subreddit"
                /\ Calls[i].sub = configured[i]
                /\ Calls[i].query = op.ticker
          /\ ret = FlatPosts(Calls, 1)

\* the configured list is not the default one; its first call raised
C7_Witness ==
    /\ pc = "returned" /\ op.name = "search_ticker" /\ op.arg.none
    /\ Get(config, "subreddits", <<>>) = <<"stocks", "wallstreetbets">>
    /\ Len(Calls) = 2
    /\ Calls[1].raised
    /\ Calls[2].posts # <<>>

\* C8: when every search_subreddit call raises, get_sentiment_data, on an
\* enabled client, raises nothing, goes through every ticker and every
\* configured subreddit, and returns for each requested ticker a report with
\* no mention, no post and no count.
C8_AllFailZeroReports ==
    (/\ pc = "returned" /\ op.name = "get_sentiment_data"
     /\ Get(config, "reddit_enabled", TRUE)
     /\ \A i \in 1..Len(Calls) : Calls[i].raised)
    => /\ ~exc
       /\ Len(Calls) = Len(op.tickers) * Len(subreddits)
       /\ DOMAIN ret = Range(op.tickers)
       /\ \A t \in DOMAIN ret :
             /\ ret[t].ticker = t
             /\ ret[t].total_mentions = 0
             /\ ret[t].posts = <<>>
             /\ DOMAIN ret[t].by_subreddit = {}

\* two tickers, two subreddits, four calls that raised
C8_Witness ==
    /\ pc = "returned" /\ op.name = "get_sentiment_data"
    /\ Len(op.tickers) = 2
    /\ Len(Calls) = 4
    /\ \A i \in 1..Len(Calls) : Calls[i].raised
    /\ DOMAIN ret = {"TSLA", "NVDA"}

\* C9: in every state of the client, before and after any call, min_delay is
\* 60/r when the configured rate_limit_per_minute r is positive, and 2 when
\* r <= 0 or the key is absent.
C9_MinDelay ==
    prog = "client"
    => IF "rate_limit_per_minute" \in DOMAIN config
       THEN LET r == config["rate_limit_per_minute"]
            IN IF r > 0
               THEN min_delay.den > 0 /\ min_delay.num * r = 60 * min_delay.den
               ELSE min_delay.num = 2 * min_delay.den
       ELSE min_delay.num = 2 * min_delay.den

\* a call has returned on a client configured with 7 requests a minute
C9_Witness ==
    /\ prog = "client" /\ pc = "returned"
    /\ Get(config, "rate_limit_per_minute", 0) = 7
    /\ min_delay = [num |-> 60, den |-> 7]
    /\ Len(Sleeps) > 0

\* the fields of `before` outside `tags` are in `after`, with the same value
Preserved(before, after, tags) ==
    \A f \in DOMAIN before \ tags : f \in DOMAIN after /\ after[f] = before[f]

\* C10 as stated: every field a record had when the collaborator returned it
\* is in the tagged post with its original value.
C10_AllFieldsPreserved ==
    /\ (pc = "returned" /\ op.name = "search_ticker")
       => \A i \in 1..Len(ret) : Preserved(FlatRecs(Calls, 1)[i], heap[ret[i]], {})
    /\ (pc = "returned" /\ op.name = "scrape_ticker_sentiment")
       => \A i \in 1..Len(ret.all_posts) :
             Preserved(FlatRecs(Calls, 1)[i], ret.all_posts[i], {})

\* C10, amended: every field a record had when the collaborator returned it,
\* other than the tag fields themselves (subreddit and ticker_searched in
\* search_ticker, subreddit and ticker in scrape_ticker_sentiment), is in the
\* tagged post with its original value.
C10_OtherFieldsPreserved ==
    /\ (pc = "returned" /\ op.name = "search_ticker")
       => /\ Len(ret) = Len(FlatRecs(Calls, 1))
          /\ \A i \in 1..Len(ret) :
                Preserved(FlatRecs(Calls, 1)[i], heap[ret[i]],
                          {"subreddit", "ticker_searched"})
    /\ (pc = "returned" /\ op.name = "scrape_ticker_sentiment")
       => /\ Len(ret.all_posts) = Len(FlatRecs(Calls, 1))
          /\ \A i \in 1..Len(ret.all_posts) :
                Preserved(FlatRecs(Calls, 1)[i], ret.all_posts[i],
                          {"subreddit", "ticker"})

\* a search returned a record that already had fields named like the tags
C10_Witness ==
    /\ pc = "returned" /\ op.name = "search_ticker"
    /\ \E i \in 1..Len(ret) :
          /\ "ticker" \in DOMAIN FlatRecs(Calls, 1)[i]
          /\ FlatRecs(Calls, 1)[i].subreddit = "elsewhere"
          /\ heap[ret[i]].subreddit \in SubNames
          /\ heap[ret[i]].ticker = "OLD"

IsWrite(e) == e.kind = "write"
IsPrint(e) == e.kind = "print"
Writes == SelectSeq(events, IsWrite)
Prints == SelectSeq(events, IsPrint)

\* save_results has returned after a write that failed
SaveFailed ==
    /\ pc = "returned" /\ op.name = "save_results"
    /\ Len(Writes) = 1 /\ Writes[1].raised

\* C12 as stated: when the write fails, save_results raises nothing, reports
\* the failure, and the aggregate passed to it is unchanged.
C12_FailureReported ==
    SaveFailed
    => /\ ~exc
       /\ \E i \in 1..Len(Prints) : Prints[i].fn = "Error saving results"
       /\ locals.data = op.data

\* C12, amended: when the write fails, save_results raises nothing and the
\* aggregate passed to it is unchanged; it reports the failure through log,
\* that is, prints it if and only if the scraper is verbose.
C12_FailureLogged ==
    SaveFailed
    => /\ ~exc
       /\ verbose <=> \E i \in 1..Len(Prints) : Prints[i].fn = "Error saving results"
       /\ \A i \in 1..Len(Prints) : Prints[i].fn # "Results saved to"
       /\ locals.data = op.data

\* a verbose scraper failed to write an aggregate that holds posts
C12_Witness ==
    /\ SaveFailed
    /\ verbose
    /\ op.data.total_posts > 0
    /\ Len(Prints) = 1

\* the events of the last step of a run, and its collaborator calls
StepEvents == SubSeq(events, op.from, Len(events))
StepCalls == SelectSeq(StepEvents, IsCall)

\* the posts that the calls with query q returned; a call that raised has none
RECURSIVE CountReturned(_, _)
CountReturned(calls, q) ==
    IF calls = <<>> THEN 0
    ELSE (IF ~Head(calls).raised /\ Head(calls).query = q
          THEN Len(Head(calls).posts) ELSE 0)
         + CountReturned(Tail(calls), q)

\* the last step of a run gave an empty result for each unit that failed
FailedUnitsEmpty ==
    /\ op.name = "scrape_multiple_tickers" =>
          /\ DOMAIN ret.tickers = Range(watchlist)
          /\ \A t \in Range(watchlist) :
                /\ ret.tickers[t].total_posts = CountReturned(StepCalls, t)
                /\ Len(ret.tickers[t].all_posts) = CountReturned(StepCalls, t)
                /\ \A i \in 1..Len(StepCalls) :
                      StepCalls[i].raised /\ StepCalls[i].query = t
                      => StepCalls[i].sub \notin DOMAIN ret.tickers[t].by_subreddit
    /\ op.name \in {"scrape_hot_stocks", "get_post_details_with_comments",
                    "get_subreddit_posts"} =>
          /\ Len(StepCalls) = 1
          /\ StepCalls[1].raised => ret = <<>>
    /\ op.name = "search_ticker" =>
          Len(ret) = CountReturned(StepCalls, "TSLA")
    /\ op.name = "get_sentiment_data" =>
          /\ DOMAIN ret = Range(test_tickers)
          /\ \A t \in Range(test_tickers) :
                /\ ret[t].total_mentions = CountReturned(StepCalls, t)
                /\ Len(ret[t].posts) = CountReturned(StepCalls, t)

\* no exception has reached the script, and failed units gave empty results
RunOk ==
    /\ ~exc
    /\ pc \notin {"crashed", "failed"}
    /\ pc # "start" => FailedUnitsEmpty

\* C11: once the collaborator is constructed, a run of either script reaches
\* its normal end whatever the collaborator calls do, every one raising
\* included: no exception reaches the script, and each unit of work that
\* failed contributes an empty result.
C11_RunReachesEnd == <>(pc = "done") /\ [](RunOk)

\* main() reached its end although each of its 16 collaborator calls raised
\* and the file was not written: every report is empty, there are no hot posts
C11_Witness ==
    /\ pc = "done" /\ prog = "scraper"
    /\ Len(Calls) = 3 * Len(stock_subreddits) + 1
    /\ \A i \in 1..Len(Calls) : Calls[i].raised
    /\ Writes # <<>> /\ Writes[1].raised
    /\ \A t \in Range(watchlist) :
          /\ locals.ticker_results.tickers[t].total_posts = 0
          /\ locals.ticker_results.tickers[t].all_posts = <<>>
    /\ locals.hot_posts = <<>>

====
